---- MODULE Spec2Model ----
(***************************************************************************)
(* Model of the mailbox-to-spreadsheet pipeline: main / process_emails      *)
(* (src/main.py), ExcelManager (src/src/excel_manager.py), IMAPHandler      *)
(* (src/src/imap/handler.py) and ProcessingStats (src/src/utils/stats.py).  *)
(***************************************************************************)
EXTENDS Integers, Sequences, FiniteSets, TLC

VARIABLES
    pc,              \* position of main / process_emails
    cfgState,        \* what load_config finds: config file and its sections
    diskState,       \* the Excel file as the file system holds it
    disk,            \* rows of the Excel file (cells as pandas reads them)
    disk0,           \* history: rows of the file at the start of the run
    fileWrites,      \* history: number of writes of the Excel file
    target_columns,  \* ExcelManager.target_columns (config)
    data,            \* ExcelManager.data, the in-memory DataFrame
    stats,           \* ProcessingStats
    nThreads,        \* number of threads get_email_threads returned
    nMsgs,           \* number of messages of the current thread
    ti,              \* index of the current thread
    mi,              \* index of the current message in its thread
    msg,             \* the current message
    analysis_result, \* outcome of analyze_email for the current message
    errorSkipped,    \* history: ids of the messages skipped on an "error" key
    readFlags,       \* message ids marked read on the server
    exc,             \* exception in flight, or the one that ended the run
    raisedIn,        \* stage of main in which exc was raised
    completed,       \* history: stages of main that returned normally
    exitCode,        \* process exit code, -1 while running
    fetched,         \* number of messages the loop has taken so far
    trace,           \* history: what the loop did with each message, in order
    fpc,             \* position of fetch_sent_emails
    connected,       \* IMAPHandler.connection is an open session
    nIds,            \* number of ids the search returned (email_ids)
    fi,              \* number of ids the fetch loop has taken
    sent_emails,     \* the list fetch_sent_emails accumulates
    ret,             \* what fetch_sent_emails returned
    failures,        \* history: the failures met, in order
    bpc,             \* position of _get_email_body
    bmsg,            \* the message given to _get_email_body
    bresult,         \* what _get_email_body returned
    kpc,             \* position of cleanup_old_backups
    backup_keep_days,\* ExcelManager.backup_keep_days (config)
    entries,         \* the entries of the backup folder at the call
    present,         \* names of the entries the folder holds
    todo,            \* names iterdir has yet to yield
    now,             \* the clock, datetime.now()
    now0,            \* history: the clock at the call
    agesSeen         \* history: <<name, file_age_days>> of the files examined

mainVars == <<pc, cfgState, diskState, disk, disk0, fileWrites, target_columns,
              data, nThreads, nMsgs, ti, mi, msg, analysis_result,
              errorSkipped, readFlags, exc, raisedIn, completed, exitCode,
              fetched, trace>>

fetchVars == <<fpc, connected, nIds, fi, sent_emails, ret, failures>>

bodyVars == <<bpc, bmsg, bresult>>

backupVars == <<kpc, backup_keep_days, entries, present, todo, now, now0,
                agesSeen>>

vars == <<mainVars, stats, fetchVars, bodyVars, backupVars>>

----------------------------------------------------------------------------
(* Bounds of the model *)

\* Rows of the Excel file.
MaxRows == 2
\* Messages in the mailbox, over all threads (and threads in the mailbox).
MaxMessages == 2

----------------------------------------------------------------------------
(* Strings: an email address is a sequence of characters *)

LowerChar(c) ==
    CASE c = "A" -> "a"
      [] c = "B" -> "b"
      [] OTHER -> c

Lower(s) == [i \in DOMAIN s |-> LowerChar(s[i])]

Emails == {<<"a">>, <<"A">>, <<"b">>}

NaN == "NaN"

None == "None"

----------------------------------------------------------------------------
(* Configuration *)

Columns == [mail |-> "Mail", status |-> "Status", note |-> "Note"]

Headers == {"Mail", "Status", "Note", "Name"}

TargetConfigs == {<<"status", "note">>, <<"status", "extra">>}

CfgStates == {"ok", "no_config_file", "missing_sections", "yaml_error",
              "bad_component_config"}

DiskStates == {"ok", "missing", "missing_columns", "unreadable"}

----------------------------------------------------------------------------
(* The Excel file and the DataFrame *)

DiskRows == [Mail : Emails, Status : {NaN}, Note : {"x"}, Name : {"n"}]

DiskTables == UNION {[1..n -> DiskRows] : n \in 0..MaxRows}

FillNa(v) == IF v = NaN THEN "" ELSE v

ReadExcel(tbl) == [i \in DOMAIN tbl |-> [h \in DOMAIN tbl[i] |-> FillNa(tbl[i][h])]]

EmptyCell(v) == IF v = "" THEN NaN ELSE v

ToExcel(tbl) == [i \in DOMAIN tbl |-> [h \in DOMAIN tbl[i] |-> EmptyCell(tbl[i][h])]]

StatsInit == [processed_emails |-> 0, updated_rows |-> 0, errors |-> 0]

\* analyze_email not called yet for the current message / it raised / it
\* returned the dict in value.
NoAnalysis == [kind |-> "none", value |-> [unset |-> "unset"]]

AnalysisRaised == [kind |-> "raised", value |-> [unset |-> "unset"]]

Returned(res) == [kind |-> "returned", value |-> res]

NoMsg == [id |-> <<0, 0>>, from |-> <<>>, processed |-> TRUE]

\* A MIME part: its content type, its Content-Disposition header, whether
\* its payload decodes, and the subparts of a multipart.
Part(ct, disp, dec, sub) ==
    [ctype |-> ct, disposition |-> disp, decodable |-> dec, parts |-> sub]

NoPart == Part("none", None, FALSE, <<>>)

\* A body: the decoded payload of the part at a path of the message, the
\* empty string, or Python's None.
BodyOf(path) == [kind |-> "payload", part |-> path]

EmptyBody == [kind |-> "empty", part |-> <<>>]

NoneBody == [kind |-> "None", part |-> <<>>]

NoBodyResult == [body |-> NoneBody, errors |-> 0]

MainIdle ==
    /\ pc = "idle"
    /\ cfgState = "ok"
    /\ diskState = "ok"
    /\ disk = <<>>
    /\ disk0 = <<>>
    /\ fileWrites = 0
    /\ target_columns = <<>>
    /\ data = <<>>
    /\ nThreads = 0
    /\ nMsgs = 0
    /\ ti = 0
    /\ mi = 0
    /\ msg = NoMsg
    /\ analysis_result = NoAnalysis
    /\ errorSkipped = {}
    /\ readFlags = {}
    /\ exc = None
    /\ raisedIn = None
    /\ completed = {}
    /\ exitCode = -1
    /\ fetched = 0
    /\ trace = <<>>

FetchIdle ==
    /\ fpc = "idle"
    /\ connected = FALSE
    /\ nIds = 0
    /\ fi = 0
    /\ sent_emails = <<>>
    /\ ret = <<>>
    /\ failures = <<>>

BodyIdle ==
    /\ bpc = "idle"
    /\ bmsg = NoPart
    /\ bresult = NoBodyResult

BackupIdle ==
    /\ kpc = "idle"
    /\ backup_keep_days = 0
    /\ entries = <<>>
    /\ present = {}
    /\ todo = {}
    /\ now = 0
    /\ now0 = 0
    /\ agesSeen = {}

Init ==
    /\ FetchIdle
    /\ BodyIdle
    /\ BackupIdle
    /\ pc = "load_config"
    /\ cfgState \in CfgStates
    /\ diskState \in DiskStates
    /\ disk \in DiskTables
    /\ disk0 = disk
    /\ fileWrites = 0
    /\ target_columns \in TargetConfigs
    /\ data = <<>>
    /\ stats = StatsInit
    /\ nThreads = 0
    /\ nMsgs = 0
    /\ ti = 0
    /\ mi = 0
    /\ msg = NoMsg
    /\ analysis_result = NoAnalysis
    /\ errorSkipped = {}
    /\ readFlags = {}
    /\ exc = None
    /\ raisedIn = None
    /\ completed = {}
    /\ exitCode = -1
    /\ fetched = 0
    /\ trace = <<>>

----------------------------------------------------------------------------
(* ExcelManager.update_data *)

\* Mutant: the row filter is lost, every row is taken as matching.
MatchingRows_AllRows(tbl, email) == DOMAIN tbl

MatchingRows(tbl, email) ==
    {i \in DOMAIN tbl : Lower(tbl[i][Columns["mail"]]) = Lower(email)}

\* The inner loop over target_columns for one matched row, from target k on.
\* self.columns[target_column] raises KeyError for a target field that has
\* no column mapping.
RECURSIVE UpdateRow(_, _, _, _)
UpdateRow(row, k, res, tcs) ==
    IF k > Len(tcs) THEN [row |-> row, raised |-> FALSE]
    ELSE IF tcs[k] \notin DOMAIN res THEN UpdateRow(row, k + 1, res, tcs)
    ELSE IF tcs[k] \notin DOMAIN Columns THEN [row |-> row, raised |-> TRUE]
    ELSE LET col == Columns[tcs[k]]
             old_value == row[col]
             new_value == res[tcs[k]]
         IN IF old_value # new_value
            THEN UpdateRow([row EXCEPT ![col] = new_value], k + 1, res, tcs)
            ELSE UpdateRow(row, k + 1, res, tcs)

\* The outer loop over the matched rows, in index order, from row i on.
RECURSIVE UpdateRows(_, _, _, _, _)
UpdateRows(tbl, i, matching, res, tcs) ==
    IF i > Len(tbl) THEN [data |-> tbl, raised |-> FALSE]
    ELSE IF i \notin matching THEN UpdateRows(tbl, i + 1, matching, res, tcs)
    ELSE LET r == UpdateRow(tbl[i], 1, res, tcs)
             t == [tbl EXCEPT ![i] = r.row]
         IN IF r.raised THEN [data |-> t, raised |-> TRUE]
            ELSE UpdateRows(t, i + 1, matching, res, tcs)

\* Mutant: a call with matches counts as one updated row.
UpdatedRowsDelta_OnePerCall(tbl, matching) == IF matching = {} THEN 0 ELSE 1

UpdatedRowsDelta(tbl, matching) == Cardinality(matching)

\* Mutant: the handler of update_data re-raises without counting the error.
update_data_ErrorNotCounted(tbl, st, email, res, tcs) ==
    LET matching == MatchingRows(tbl, email)
        u == UpdateRows(tbl, 1, matching, res, tcs)
    IN IF u.raised
       THEN [data |-> u.data, stats |-> st, raised |-> TRUE]
       ELSE [data |-> u.data,
             stats |-> [st EXCEPT !.updated_rows =
                            @ + UpdatedRowsDelta(tbl, matching)],
             raised |-> FALSE]

\* Mutant: no matching row is treated as a failure of the call.
update_data_NoMatchRaises(tbl, st, email, res, tcs) ==
    LET matching == MatchingRows(tbl, email)
        u == UpdateRows(tbl, 1, matching, res, tcs)
    IN IF matching = {} \/ u.raised
       THEN [data |-> u.data,
             stats |-> [st EXCEPT !.errors = @ + 1],
             raised |-> TRUE]
       ELSE [data |-> u.data,
             stats |-> [st EXCEPT !.updated_rows =
                            @ + UpdatedRowsDelta(tbl, matching)],
             raised |-> FALSE]

\* The whole call: the table and the stats it leaves, and whether it raised.
update_data(tbl, st, email, res, tcs) ==
    LET matching == MatchingRows(tbl, email)
    IN IF matching = {}
       THEN [data |-> tbl, stats |-> st, raised |-> FALSE]
       ELSE LET u == UpdateRows(tbl, 1, matching, res, tcs)
            IN IF u.raised
               THEN [data |-> u.data,
                     stats |-> [st EXCEPT !.errors = @ + 1],
                     raised |-> TRUE]
               ELSE [data |-> u.data,
                     stats |-> [st EXCEPT !.updated_rows =
                                    @ + UpdatedRowsDelta(tbl, matching)],
                     raised |-> FALSE]

----------------------------------------------------------------------------
(* main *)

Raise(e, stage) ==
    /\ exc' = e
    /\ raisedIn' = stage
    /\ pc' = "main_except"

Return(stage, next) ==
    /\ completed' = completed \cup {stage}
    /\ pc' = next
    /\ UNCHANGED <<errorSkipped, exc, raisedIn>>

LoadConfigOutcome ==
    IF cfgState = "no_config_file" THEN "FileNotFoundError"
    ELSE IF cfgState = "yaml_error" THEN "YAMLError"
    ELSE IF cfgState = "missing_sections" THEN "ValueError"
    ELSE IF diskState = "missing" THEN "FileNotFoundError"
    ELSE None

LoadConfig ==
    /\ UNCHANGED <<fetchVars, bodyVars, backupVars, trace>>
    /\ pc = "load_config"
    /\ IF LoadConfigOutcome # None
       THEN Raise(LoadConfigOutcome, "load_config") /\ UNCHANGED completed
       ELSE Return("load_config", "init_components")
    /\ UNCHANGED <<errorSkipped, cfgState, diskState, disk, disk0, fileWrites,
                   target_columns,
                   data, stats, nThreads, nMsgs, ti, mi, msg, analysis_result,
                   readFlags, exitCode, fetched>>

InitComponents ==
    /\ UNCHANGED <<fetchVars, bodyVars, backupVars, trace>>
    /\ pc = "init_components"
    /\ IF cfgState = "bad_component_config"
       THEN Raise("KeyError", "init_components") /\ UNCHANGED completed
       ELSE Return("init_components", "check_structure")
    /\ UNCHANGED <<errorSkipped, cfgState, diskState, disk, disk0, fileWrites,
                   target_columns,
                   data, stats, nThreads, nMsgs, ti, mi, msg, analysis_result,
                   readFlags, exitCode, fetched>>

CheckStructureOutcome ==
    IF diskState = "missing" THEN "FileNotFoundError"
    ELSE IF diskState = "unreadable" THEN "ReadError"
    ELSE IF diskState = "missing_columns" THEN "ValueError"
    ELSE None

CheckStructure ==
    /\ UNCHANGED <<fetchVars, bodyVars, backupVars, trace>>
    /\ pc = "check_structure"
    /\ IF CheckStructureOutcome # None
       THEN Raise(CheckStructureOutcome, "check_structure") /\ UNCHANGED completed
       ELSE Return("check_structure", "load_data")
    /\ UNCHANGED <<errorSkipped, cfgState, diskState, disk, disk0, fileWrites,
                   target_columns,
                   data, stats, nThreads, nMsgs, ti, mi, msg, analysis_result,
                   readFlags, exitCode, fetched>>

LoadData ==
    /\ UNCHANGED <<fetchVars, bodyVars, backupVars, trace>>
    /\ pc = "load_data"
    /\ \E io \in {"ok", "fail"} :
          IF io = "fail"
          THEN Raise("ReadError", "load_data") /\ UNCHANGED <<completed, data>>
          ELSE Return("load_data", "get_email_threads") /\ data' = ReadExcel(disk)
    /\ UNCHANGED <<errorSkipped, cfgState, diskState, disk, disk0, fileWrites,
                   target_columns,
                   stats, nThreads, nMsgs, ti, mi, msg, analysis_result,
                   readFlags, exitCode, fetched>>

----------------------------------------------------------------------------
(* process_emails *)

AnalysisResults ==
    {[error |-> "model unavailable"],
     [error |-> "model unavailable", status |-> "y"],
     [status |-> "y", note |-> "y"],
     [status |-> "x", extra |-> "y"],
     [other |-> "y"]}

\* Sender addresses of the messages in the mailbox.
Senders == {<<"A">>, <<"b">>}

InLoop == {"next_thread", "next_message", "analyze_email", "update_data",
           "mark_as_read", "count_processed"}

\* imap_handler.get_email_threads(): the list of threads the loop iterates.
\* A thread is a sent message and its replies, so it holds a message.
GetEmailThreads ==
    /\ UNCHANGED <<fetchVars, bodyVars, backupVars, trace>>
    /\ pc = "get_email_threads"
    /\ \E n \in 0..MaxMessages : nThreads' = n
    /\ ti' = 0
    /\ pc' = "next_thread"
    /\ UNCHANGED <<errorSkipped, cfgState, diskState, disk, disk0, fileWrites,
                   target_columns,
                   data, stats, nMsgs, mi, msg, analysis_result, readFlags,
                   exc, raisedIn, completed, exitCode, fetched>>

\* for thread in ...: the next thread, or the end of the loop and the
\* normal return of process_emails.
NextThread ==
    /\ UNCHANGED <<fetchVars, bodyVars, backupVars, trace>>
    /\ pc = "next_thread"
    /\ IF ti < nThreads
       THEN /\ ti' = ti + 1
            /\ \E n \in 1..(MaxMessages - fetched - (nThreads - ti - 1)) :
                  nMsgs' = n
            /\ mi' = 0
            /\ pc' = "next_message"
            /\ UNCHANGED <<completed, exc, raisedIn>>
       ELSE /\ Return("process_emails", "save_data")
            /\ UNCHANGED <<ti, nMsgs, mi>>
    /\ UNCHANGED <<errorSkipped, cfgState, diskState, disk, disk0, fileWrites,
                   target_columns,
                   data, stats, nThreads, msg, analysis_result, readFlags,
                   exitCode, fetched>>

\* for message in thread["messages"]: if message.get("processed"): continue
\* An entry of the trace: what was done, and the id of the message.
Event(op, m) == [op |-> op, id |-> m.id]

\* Mutant: the processed flag is not looked at.
AfterFetch_IgnoreFlag(m) == "analyze_email"

AfterFetch(m) == IF m.processed THEN "next_message" ELSE "analyze_email"

NextMessage ==
    /\ UNCHANGED <<fetchVars, bodyVars, backupVars>>
    /\ pc = "next_message"
    /\ IF mi < nMsgs
       THEN /\ mi' = mi + 1
            /\ fetched' = fetched + 1
            /\ \E f \in Senders, p \in BOOLEAN :
                  msg' = [id |-> <<ti, mi + 1>>, from |-> f, processed |-> p]
            /\ analysis_result' = NoAnalysis
            /\ pc' = AfterFetch(msg')
            /\ trace' = IF msg'.processed
                        THEN Append(trace, Event("flagged_processed", msg'))
                        ELSE trace
       ELSE /\ pc' = "next_thread"
            /\ UNCHANGED <<mi, msg, analysis_result, fetched, trace>>
    /\ UNCHANGED <<errorSkipped, cfgState, diskState, disk, disk0, fileWrites,
                   target_columns,
                   data, stats, nThreads, nMsgs, ti, readFlags, exc, raisedIn,
                   completed, exitCode>>

\* Where process_emails goes when analyze_email raises.
AnalysisRaisedTarget == "process_emails_except"

\* Mutant: the "error" key is not looked at.
AfterAnalysis_NoErrorCheck(res) == "update_data"

\* Where process_emails goes with the result analyze_email returned.
AfterAnalysis(res) ==
    IF "error" \in DOMAIN res THEN "next_message" ELSE "update_data"

\* lm_studio_client.analyze_email(...): returns a result, or raises as
\* analyze_text does on a non-2xx response or a network failure.
AnalyzeEmail ==
    /\ UNCHANGED <<fetchVars, bodyVars, backupVars>>
    /\ pc = "analyze_email"
    /\ \/ /\ analysis_result' = AnalysisRaised
          /\ exc' = "RequestException"
          /\ pc' = AnalysisRaisedTarget
          /\ trace' = Append(trace, Event("analysis_raised", msg))
          /\ UNCHANGED errorSkipped
       \/ /\ \E res \in AnalysisResults : analysis_result' = Returned(res)
          /\ pc' = AfterAnalysis(analysis_result'.value)
          /\ errorSkipped' = IF pc' = "next_message"
                              THEN errorSkipped \cup {msg.id}
                              ELSE errorSkipped
          /\ trace' = Append(trace,
                         Event(IF "error" \in DOMAIN analysis_result'.value
                               THEN "analysis_error" ELSE "analysis_ok", msg))
          /\ UNCHANGED exc
    /\ UNCHANGED <<cfgState, diskState, disk, disk0, fileWrites, target_columns,
                   data, stats, nThreads, nMsgs, ti, mi, msg, readFlags,
                   raisedIn, completed, exitCode, fetched>>

\* excel_manager.update_data(email=message["from"], ...)
UpdateData ==
    /\ UNCHANGED <<fetchVars, bodyVars, backupVars>>
    /\ pc = "update_data"
    /\ LET u == update_data(data, stats, msg.from, analysis_result.value,
                            target_columns)
       IN /\ data' = u.data
          /\ stats' = u.stats
          /\ IF u.raised
             THEN exc' = "KeyError" /\ pc' = "process_emails_except"
             ELSE UNCHANGED exc /\ pc' = "mark_as_read"
          /\ trace' = Append(trace, Event(IF u.raised THEN "update_raised"
                                          ELSE "update_returned", msg))
    /\ UNCHANGED <<errorSkipped, cfgState, diskState, disk, disk0, fileWrites,
                   target_columns,
                   nThreads, nMsgs, ti, mi, msg, analysis_result, readFlags,
                   raisedIn, completed, exitCode, fetched>>

\* imap_handler.mark_as_read(message["message_id"])
MarkAsRead ==
    /\ UNCHANGED <<fetchVars, bodyVars, backupVars>>
    /\ pc = "mark_as_read"
    /\ readFlags' = readFlags \cup {msg.id}
    /\ trace' = Append(trace, Event("mark_as_read", msg))
    /\ pc' = "count_processed"
    /\ UNCHANGED <<errorSkipped, cfgState, diskState, disk, disk0, fileWrites,
                   target_columns,
                   data, stats, nThreads, nMsgs, ti, mi, msg, analysis_result,
                   exc, raisedIn, completed, exitCode, fetched>>

\* Mutant: the counter is decremented instead of incremented.
ProcessedDelta_Decrement == 0 - 1

ProcessedDelta == 1

\* stats.processed_emails += 1
CountProcessed ==
    /\ UNCHANGED <<fetchVars, bodyVars, backupVars>>
    /\ pc = "count_processed"
    /\ stats' = [stats EXCEPT !.processed_emails = @ + ProcessedDelta]
    /\ trace' = Append(trace, Event("counted", msg))
    /\ pc' = "next_message"
    /\ UNCHANGED <<errorSkipped, cfgState, diskState, disk, disk0, fileWrites,
                   target_columns,
                   data, nThreads, nMsgs, ti, mi, msg, analysis_result,
                   readFlags, exc, raisedIn, completed, exitCode, fetched>>

HandlerErrorsDelta == 1

\* Mutant: the handler swallows the exception and main goes on to save.
ReraiseTarget_Swallowed == "save_data"

\* raise: the exception leaves process_emails for main's handlers.
ReraiseTarget == "main_except"

\* except Exception: logger.error(...); stats.errors += 1; raise
ProcessEmailsExcept ==
    /\ UNCHANGED <<fetchVars, bodyVars, backupVars, trace>>
    /\ pc = "process_emails_except"
    /\ stats' = [stats EXCEPT !.errors = @ + HandlerErrorsDelta]
    /\ raisedIn' = "process_emails"
    /\ pc' = ReraiseTarget
    /\ UNCHANGED <<errorSkipped, cfgState, diskState, disk, disk0, fileWrites,
                   target_columns,
                   data, nThreads, nMsgs, ti, mi, msg, analysis_result,
                   readFlags, exc, completed, exitCode, fetched>>

----------------------------------------------------------------------------
(* main, continued *)

\* excel_manager.save_data(): to_excel overwrites the file in place; a
\* failed write leaves the old file or a file that no longer reads.
SaveData ==
    /\ UNCHANGED <<fetchVars, bodyVars, backupVars, trace>>
    /\ pc = "save_data"
    /\ \/ /\ disk' = ToExcel(data)
          /\ fileWrites' = fileWrites + 1
          /\ Return("save_data", "log_summary")
          /\ UNCHANGED diskState
       \/ /\ Raise("WriteError", "save_data")
          /\ \E broken \in BOOLEAN :
                IF broken
                THEN diskState' = "unreadable" /\ fileWrites' = fileWrites + 1
                ELSE UNCHANGED <<diskState, fileWrites>>
          /\ UNCHANGED <<disk, completed>>
    /\ UNCHANGED <<errorSkipped, cfgState, disk0, target_columns, data, stats,
                   nThreads,
                   nMsgs, ti, mi, msg, analysis_result, readFlags, exitCode,
                   fetched>>

\* stats.log_summary(); main returns and the interpreter exits with 0.
LogSummary ==
    /\ UNCHANGED <<fetchVars, bodyVars, backupVars, trace>>
    /\ pc = "log_summary"
    /\ exitCode' = 0
    /\ pc' = "exited"
    /\ UNCHANGED <<errorSkipped, cfgState, diskState, disk, disk0, fileWrites,
                   target_columns,
                   data, stats, nThreads, nMsgs, ti, mi, msg, analysis_result,
                   readFlags, exc, raisedIn, completed, fetched>>

\* Mutant: only the missing-file handler exits with 1.
ExitCodeFor_GenericZero(e) == IF e = "FileNotFoundError" THEN 1 ELSE 0

\* except FileNotFoundError: sys.exit(1) / except Exception: sys.exit(1)
ExitCodeFor(e) == IF e = "FileNotFoundError" THEN 1 ELSE 1

MainExcept ==
    /\ UNCHANGED <<fetchVars, bodyVars, backupVars, trace>>
    /\ pc = "main_except"
    /\ exitCode' = ExitCodeFor(exc)
    /\ pc' = "exited"
    /\ UNCHANGED <<errorSkipped, cfgState, diskState, disk, disk0, fileWrites,
                   target_columns,
                   data, stats, nThreads, nMsgs, ti, mi, msg, analysis_result,
                   readFlags, exc, raisedIn, completed, fetched>>

Next ==
    \/ LoadConfig
    \/ InitComponents
    \/ CheckStructure
    \/ LoadData
    \/ GetEmailThreads
    \/ NextThread
    \/ NextMessage
    \/ AnalyzeEmail
    \/ UpdateData
    \/ MarkAsRead
    \/ CountProcessed
    \/ ProcessEmailsExcept
    \/ SaveData
    \/ LogSummary
    \/ MainExcept

Spec == Init /\ [][Next]_vars

----------------------------------------------------------------------------
(* IMAPHandler._get_email_body *)

\* Subparts of a multipart at the top level / of a nested multipart.
MaxParts == 2
MaxNested == 1

LeafParts ==
    {Part("text/plain", None, TRUE, <<>>),
     Part("text/html", None, TRUE, <<>>),
     Part("text/plain", "attachment", TRUE, <<>>),
     Part("text/html", "attachment", TRUE, <<>>),
     Part("image/png", "attachment", FALSE, <<>>),
     Part("text/plain", None, FALSE, <<>>)}

Multipart(sub) == Part("multipart/mixed", None, FALSE, sub)

NestedParts ==
    LeafParts \cup
    {Multipart(sub) : sub \in UNION {[1..n -> LeafParts] : n \in 0..MaxNested}}

\* Messages with leaves only below the top level, and all messages.
FlatMessages ==
    LeafParts \cup
    {Multipart(sub) : sub \in UNION {[1..n -> LeafParts] : n \in 0..MaxParts}}

Messages ==
    LeafParts \cup
    {Multipart(sub) : sub \in UNION {[1..n -> NestedParts] : n \in 0..MaxParts}}

is_multipart(part) == part.ctype = "multipart/mixed"

\* msg.walk(): the part, then the walks of its subparts in order; each part
\* with its path in the message.
RECURSIVE Walk(_, _)
RECURSIVE WalkAll(_, _, _)
Walk(part, path) ==
    <<[part |-> part, path |-> path]>> \o WalkAll(part.parts, path, 1)

WalkAll(subs, path, k) ==
    IF k > Len(subs) THEN <<>>
    ELSE Walk(subs[k], Append(path, k)) \o WalkAll(subs, path, k + 1)

\* "attachment" not in str(part.get("Content-Disposition"))
NotAttachment(part) == part.disposition # "attachment"

\* The parts the walk returns from: the if and the elif of the loop.
IsBodyPart(part) ==
    \/ part.ctype = "text/plain" /\ NotAttachment(part)
    \/ part.ctype = "text/html" /\ NotAttachment(part)

\* part.get_payload(decode=True).decode(); a failure is caught, counted and
\* gives the empty string.
Decode(part, path) ==
    IF part.decodable
    THEN [body |-> BodyOf(path), errors |-> 0]
    ELSE [body |-> EmptyBody, errors |-> 1]

RECURSIVE FirstBody(_, _)
FirstBody(walk, k) ==
    IF k > Len(walk) THEN [body |-> NoneBody, errors |-> 0]
    ELSE IF IsBodyPart(walk[k].part) THEN Decode(walk[k].part, walk[k].path)
    ELSE FirstBody(walk, k + 1)

\* The body returned and the number of errors counted.
GetEmailBody(m) ==
    IF is_multipart(m) THEN FirstBody(Walk(m, <<>>), 1) ELSE Decode(m, <<>>)

InitBody ==
    /\ MainIdle
    /\ FetchIdle
    /\ BackupIdle
    /\ stats = StatsInit
    /\ bpc = "call"
    /\ bmsg \in Messages
    /\ bresult = NoBodyResult

ExtractBody ==
    /\ bpc = "call"
    /\ bresult' = GetEmailBody(bmsg)
    /\ stats' = [stats EXCEPT !.errors = @ + bresult'.errors]
    /\ bpc' = "returned"
    /\ UNCHANGED <<mainVars, fetchVars, backupVars, bmsg>>

NextBody == ExtractBody

SpecBody == InitBody /\ [][NextBody]_vars

----------------------------------------------------------------------------
(* IMAPHandler.fetch_sent_emails *)

\* Ids the search returns.
MaxIds == 3

\* _parse_email: the record of a message, and the number of errors counted.
\* A failure on the headers is caught, counted and gives the empty dict.
EmptyRecord == [empty |-> TRUE, id |-> 0, body |-> NoneBody]

ParseEmail(m, email_id, headersOk) ==
    IF ~headersOk
    THEN [record |-> EmptyRecord, errors |-> 1]
    ELSE LET b == GetEmailBody(m)
         IN [record |-> [empty |-> FALSE, id |-> email_id, body |-> b.body],
             errors |-> b.errors]

\* Mutant: the handler catches the errors of the IMAP library only.
Caught_IMAPOnly(e) == e = "IMAP4.error"

\* except Exception as e: every exception of the try block is caught.
Caught(e) == TRUE

\* The handler: log, stats.errors += 1, return []; an exception that is not
\* caught leaves fetch_sent_emails.
FetchExcept(e, failure) ==
    /\ failures' = Append(failures, failure)
    /\ IF Caught(e)
       THEN /\ stats' = [stats EXCEPT !.errors = @ + 1]
            /\ ret' = <<>>
            /\ fpc' = "returned"
       ELSE /\ fpc' = "propagated"
            /\ UNCHANGED <<stats, ret>>

InitFetch ==
    /\ MainIdle
    /\ BodyIdle
    /\ BackupIdle
    /\ stats = StatsInit
    /\ fpc = "select"
    /\ connected \in BOOLEAN
    /\ nIds = 0
    /\ fi = 0
    /\ sent_emails = <<>>
    /\ ret = <<>>
    /\ failures = <<>>

\* self.connection.select(...); status, messages = self.connection.search(...)
FetchSelectSearch ==
    /\ fpc = "select"
    /\ IF ~connected
       THEN FetchExcept("AttributeError", "select_raised") /\ UNCHANGED nIds
       ELSE \/ FetchExcept("IMAP4.error", "select_raised") /\ UNCHANGED nIds
            \/ FetchExcept("IMAP4.error", "search_raised") /\ UNCHANGED nIds
            \/ /\ failures' = Append(failures, "search_not_ok")
               /\ ret' = <<>>
               /\ fpc' = "returned"
               /\ UNCHANGED <<stats, nIds>>
            \/ /\ \E n \in 0..MaxIds : nIds' = n
               /\ fpc' = "fetch"
               /\ UNCHANGED <<stats, ret, failures>>
    /\ UNCHANGED <<mainVars, bodyVars, backupVars, connected, fi, sent_emails>>

\* One round of the loop over email_ids.
FetchOne ==
    /\ fpc = "fetch"
    /\ fi < nIds
    /\ \/ /\ \E e \in {"IMAP4.error", "TypeError"} :
                FetchExcept(e, "fetch_raised")
          /\ UNCHANGED <<fi, sent_emails>>
       \/ /\ failures' = Append(failures, "fetch_not_ok")
          /\ fi' = fi + 1
          /\ UNCHANGED <<stats, ret, fpc, sent_emails>>
       \/ /\ \E m \in FlatMessages, headersOk \in BOOLEAN :
                LET p == ParseEmail(m, fi + 1, headersOk)
                IN /\ sent_emails' = Append(sent_emails, p.record)
                   /\ stats' = [stats EXCEPT
                                  !.errors = @ + p.errors,
                                  !.processed_emails = @ + 1]
          /\ fi' = fi + 1
          /\ UNCHANGED <<ret, fpc, failures>>
    /\ UNCHANGED <<mainVars, bodyVars, backupVars, connected, nIds>>

\* return sent_emails
FetchReturn ==
    /\ fpc = "fetch"
    /\ fi = nIds
    /\ ret' = sent_emails
    /\ fpc' = "returned"
    /\ UNCHANGED <<mainVars, bodyVars, backupVars, stats, connected, nIds, fi,
                   sent_emails, failures>>

NextFetch ==
    \/ FetchSelectSearch
    \/ FetchOne
    \/ FetchReturn

SpecFetch == InitFetch /\ [][NextFetch]_vars

----------------------------------------------------------------------------
(* ExcelManager.cleanup_old_backups *)

\* Entries of the backup folder.
MaxBackups == 2
\* Latest instant of the clock and of the modification times.
MaxTime == 4

\* Instants per day: the clock and st_mtime are finer than the whole days
\* that timedelta.days keeps.
DayLen == 2

\* config["excel"]["backup"].get("keep_days", 7)
KeepDays == {0, 1}

\* An entry of the folder: its st_mtime, and whether is_file() holds.
Entry == [mtime : 0..MaxTime, is_file : BOOLEAN]

\* The folder at the call; an entry is named by its index.
EntryTables == UNION {[1..n -> Entry] : n \in 0..MaxBackups}

\* (datetime.now() - datetime.fromtimestamp(st_mtime)).days: timedelta.days
\* rounds towards minus infinity, as \div does.
file_age_days(t, mtime) == (t - mtime) \div DayLen

\* Mutant: a file of exactly keep_days is deleted too.
ShouldDelete_AtLeast(age, keep) == age >= keep

\* if file_age_days > self.backup_keep_days
ShouldDelete(age, keep) == age > keep

InitBackup ==
    /\ MainIdle
    /\ FetchIdle
    /\ BodyIdle
    /\ stats = StatsInit
    /\ kpc = "iterate"
    /\ backup_keep_days \in KeepDays
    /\ entries \in EntryTables
    /\ present = DOMAIN entries
    /\ todo = DOMAIN entries
    /\ now \in 0..MaxTime
    /\ now0 = now
    /\ agesSeen = {}

\* The clock moves on while the loop runs: datetime.now() is read anew
\* for every file.
ClockTick ==
    /\ kpc = "iterate"
    /\ now < MaxTime
    /\ now' = now + 1
    /\ UNCHANGED <<mainVars, stats, fetchVars, bodyVars, kpc,
                   backup_keep_days, entries, present, todo, now0, agesSeen>>

\* One round of the loop over backup_dir.iterdir(), in the order the file
\* system yields the entries. stat() and unlink() can raise OSError; the
\* handler logs and re-raises.
ExamineEntry ==
    /\ kpc = "iterate"
    /\ \E f \in todo :
          /\ todo' = todo \ {f}
          /\ IF ~entries[f].is_file
             THEN UNCHANGED <<kpc, present, agesSeen>>
             ELSE \/ /\ kpc' = "raised"
                     /\ UNCHANGED <<present, agesSeen>>
                  \/ LET age == file_age_days(now, entries[f].mtime)
                     IN /\ agesSeen' = agesSeen \cup {<<f, age>>}
                        /\ IF ShouldDelete(age, backup_keep_days)
                           THEN \/ /\ present' = present \ {f}
                                   /\ UNCHANGED kpc
                                \/ /\ kpc' = "raised"
                                   /\ UNCHANGED present
                           ELSE UNCHANGED <<kpc, present>>
    /\ UNCHANGED <<mainVars, stats, fetchVars, bodyVars, backup_keep_days,
                   entries, now, now0>>

\* The loop is over: the method returns None.
CleanupReturn ==
    /\ kpc = "iterate"
    /\ todo = {}
    /\ kpc' = "returned"
    /\ UNCHANGED <<mainVars, stats, fetchVars, bodyVars, backup_keep_days,
                   entries, present, todo, now, now0, agesSeen>>

NextBackup ==
    \/ ClockTick
    \/ ExamineEntry
    \/ CleanupReturn

SpecBackup == InitBackup /\ [][NextBackup]_vars

----------------------------------------------------------------------------
(* Properties of process_emails and update_data *)

Range(f) == {f[i] : i \in DOMAIN f}

HasErrorKey(a) == a.kind = "returned" /\ "error" \in DOMAIN a.value

IsSuccess(a) == a.kind = "returned" /\ "error" \notin DOMAIN a.value

\* update_data raised for the current message.
UpdateRaised == exc = "KeyError" /\ raisedIn # "init_components"

\* process_emails has left the loop body for the current message.
DoneWith == pc \notin {"analyze_email", "update_data", "mark_as_read",
                        "count_processed"}

\* Every target cell of the rows matching the current message holds the
\* value of the current analysis result.
RowsHoldResult ==
    \A i \in MatchingRows(data, msg.from) :
        \A t \in Range(target_columns) :
            (t \in DOMAIN analysis_result.value /\ t \in DOMAIN Columns)
                => data[i][Columns[t]] = analysis_result.value[t]

C1_SkipStep ==
    (pc = "analyze_email" /\ HasErrorKey(analysis_result'))
        => /\ pc' = "next_message"
           /\ data' = data
           /\ readFlags' = readFlags
           /\ stats' = stats
           /\ exc' = exc

C1_Processed ==
    /\ msg.id \in readFlags
    /\ RowsHoldResult
    /\ stats.processed_emails = Cardinality(readFlags)

C1_LaterOriginal ==
    /\ errorSkipped \cap readFlags = {}
    /\ (/\ errorSkipped # {}
        /\ msg.id \notin errorSkipped
        /\ ~msg.processed
        /\ IsSuccess(analysis_result)
        /\ DoneWith) => C1_Processed

C1_LaterAmended ==
    /\ errorSkipped \cap readFlags = {}
    /\ (/\ errorSkipped # {}
        /\ msg.id \notin errorSkipped
        /\ ~msg.processed
        /\ IsSuccess(analysis_result)
        /\ ~UpdateRaised
        /\ DoneWith) => C1_Processed

\* C1 as stated: a message whose analysis result has an "error" key is
\* skipped with no update, no read mark and no change of the stats, the loop
\* goes on to the next message, and every later message whose analysis
\* succeeds has its rows updated, is marked read and is counted once.
C1_Original == [][C1_SkipStep /\ C1_LaterOriginal']_vars

\* C1 as amended: the same, for every later message whose analysis succeeds
\* and whose update_data call returns without raising.
C1_Amended == [][C1_SkipStep /\ C1_LaterAmended']_vars

C1_Witness ==
    /\ pc = "next_message"
    /\ errorSkipped # {}
    /\ msg.id \notin errorSkipped
    /\ IsSuccess(analysis_result)
    /\ MatchingRows(data, msg.from) # {}
    /\ "status" \in DOMAIN analysis_result.value
    /\ msg.id \in readFlags
    /\ stats.processed_emails = 1
    /\ stats.errors = 0

\* C2: when analyze_email raises for a message, process_emails treats it as
\* a failure of that message only: its handler is not entered and the run
\* is not aborted in process_emails.
C2_NotAborted ==
    analysis_result.kind = "raised"
        => (pc # "process_emails_except" /\ raisedIn # "process_emails")

\* C3: update_data changes a cell only in a row whose mail column equals the
\* email case-insensitively, in the column mapped to a target field that is
\* in the target list and in the result, when the result value differs from
\* the cell; the cell then holds the result value. No other cell changes.
C3_UpdateFrame ==
    [][pc = "update_data" =>
         /\ DOMAIN data' = DOMAIN data
         /\ \A i \in DOMAIN data : \A h \in Headers :
               data'[i][h] # data[i][h] =>
                 /\ Lower(data[i]["Mail"]) = Lower(msg.from)
                 /\ \E t \in Range(target_columns) :
                       /\ t \in DOMAIN analysis_result.value
                       /\ t \in DOMAIN Columns
                       /\ Columns[t] = h
                       /\ analysis_result.value[t] # data[i][h]
                       /\ data'[i][h] = analysis_result.value[t]]_vars

C3_Witness ==
    /\ pc = "mark_as_read"
    /\ msg.from = <<"A">>
    /\ analysis_result.value = [status |-> "y", note |-> "y"]
    /\ \E i, j \in DOMAIN data :
          /\ data[i] = [Mail |-> <<"a">>, Status |-> "y", Note |-> "y",
                         Name |-> "n"]
          /\ data[j] = [Mail |-> <<"b">>, Status |-> "", Note |-> "x",
                         Name |-> "n"]

\* C4: a call of update_data that returns raises stats.updated_rows by the
\* number of rows matching the email case-insensitively, whatever number of
\* cells changed, and no other step changes the counter.
C4_UpdatedRows ==
    [][stats'.updated_rows = stats.updated_rows +
         (IF pc = "update_data" /\ pc' = "mark_as_read"
          THEN Cardinality({i \in DOMAIN data :
                              Lower(data[i]["Mail"]) = Lower(msg.from)})
          ELSE 0)]_vars

C4_Witness ==
    /\ pc = "mark_as_read"
    /\ stats.updated_rows = 2
    /\ stats.processed_emails = 0
    /\ data = ReadExcel(disk)

C5_NoMatchStep ==
    (pc = "update_data" /\ MatchingRows(data, msg.from) = {})
        => /\ data' = data
           /\ stats' = stats
           /\ exc' = None
           /\ pc' = "mark_as_read"

C5_After ==
    (/\ ~msg.processed
     /\ IsSuccess(analysis_result)
     /\ MatchingRows(data, msg.from) = {}
     /\ DoneWith)
        => /\ msg.id \in readFlags
           /\ stats.processed_emails = Cardinality(readFlags)

\* C5: for an email matching no row, update_data returns without raising
\* and changes neither the table nor the stats; process_emails then marks
\* the message read and counts it as processed.
C5_NoMatch == [][C5_NoMatchStep /\ C5_After']_vars

C5_Witness ==
    /\ pc = "next_message"
    /\ IsSuccess(analysis_result)
    /\ Len(data) > 0
    /\ MatchingRows(data, msg.from) = {}
    /\ msg.id \in readFlags
    /\ stats = [processed_emails |-> 1, updated_rows |-> 0, errors |-> 0]

BeforeSave == {"load_config", "init_components", "check_structure",
               "load_data", "process_emails"}

C6_Inv ==
    /\ fileWrites <= 1
    /\ fileWrites = 1 =>
          ("process_emails" \in completed /\ raisedIn \notin BeforeSave)
    /\ raisedIn \in BeforeSave => (disk = disk0 /\ fileWrites = 0)

\* C6: the Excel file is written at most once in a run, by save_data, after
\* process_emails returned; when load_config, the structure check, load_data
\* or process_emails raises, the file keeps its content from the start of
\* the run whatever was updated in memory.
C6_SaveOnce ==
    [][/\ (disk' # disk \/ diskState' # diskState \/ fileWrites' # fileWrites)
            => pc = "save_data"
       /\ C6_Inv']_vars

C6_Witness ==
    /\ pc = "exited"
    /\ raisedIn = "process_emails"
    /\ data # ReadExcel(disk)
    /\ stats.updated_rows > 0
    /\ disk = disk0

\* C7: main ends with exit code 0 exactly when load_config, check_structure,
\* load_data, process_emails and save_data all returned; every exception,
\* missing file or configuration error ends it with exit code 1.
C7_ExitCode ==
    /\ pc # "exited" => exitCode = -1
    /\ pc = "exited" =>
          /\ exitCode \in {0, 1}
          /\ exitCode = 0 <=>
                {"load_config", "check_structure", "load_data",
                 "process_emails", "save_data"} \subseteq completed
          /\ exitCode = 1 <=> raisedIn # None

C7_Witness ==
    /\ pc = "exited"
    /\ exitCode = 1
    /\ exc = "WriteError"
    /\ raisedIn = "save_data"
    /\ "process_emails" \in completed

C8_RaiseStep ==
    (pc = "update_data" /\ exc' = "KeyError")
        => /\ stats' = [stats EXCEPT !.errors = @ + 1]
           /\ pc' = "process_emails_except"
           /\ readFlags' = readFlags

C8_Aborted ==
    UpdateRaised
        => /\ msg' = msg
           /\ analysis_result' = analysis_result
           /\ data' = data
           /\ readFlags' = readFlags
           /\ stats'.processed_emails = stats.processed_emails
           /\ stats'.updated_rows = stats.updated_rows
           /\ pc' \notin InLoop

C8_Inv ==
    /\ pc = "update_data" => stats.errors = 0
    /\ UpdateRaised =>
          /\ msg.id \notin readFlags
          /\ pc \in {"process_emails_except", "main_except", "exited"}
          /\ pc = "process_emails_except" => stats.errors = 1
          /\ pc \in {"main_except", "exited"} =>
                (stats.errors = 2 /\ raisedIn = "process_emails")
          /\ pc = "exited" => exitCode = 1

\* C8: when update_data raises in process_emails, the error counter is
\* raised by update_data and once more by the handler of process_emails (2 in
\* all), the exception reaches main, the failing message is neither marked
\* read nor counted, and no later message is analysed, updated or marked.
C8_UpdateRaises == [][C8_RaiseStep /\ C8_Aborted /\ C8_Inv']_vars

C8_Witness ==
    /\ pc = "exited"
    /\ UpdateRaised
    /\ stats.errors = 2
    /\ msg.id \notin readFlags
    /\ ti < nThreads

----------------------------------------------------------------------------
(* Properties of _get_email_body *)

\* The non-attachment parts of a content type, in the walk of the message.
BodyParts(m, ct) ==
    LET walk == Walk(m, <<>>)
    IN {k \in DOMAIN walk :
          walk[k].part.ctype = ct /\ NotAttachment(walk[k].part)}

BodiesOf(m, ct) == {BodyOf(Walk(m, <<>>)[k].path) : k \in BodyParts(m, ct)}

AllDecodable(m, ct) ==
    \A k \in BodyParts(m, ct) : Walk(m, <<>>)[k].part.decodable

\* C10: for a multipart message with a non-attachment text/plain part and a
\* non-attachment text/html part, in either order of the walk,
\* _get_email_body returns the body of a plain-text part; the body of an
\* HTML part is returned only when there is no plain-text part.
C10_PlainPreferred ==
    (/\ bpc = "returned"
     /\ is_multipart(bmsg)
     /\ AllDecodable(bmsg, "text/plain")
     /\ AllDecodable(bmsg, "text/html"))
        => /\ (/\ BodyParts(bmsg, "text/plain") # {}
               /\ BodyParts(bmsg, "text/html") # {})
                 => bresult.body \in BodiesOf(bmsg, "text/plain")
           /\ bresult.body \in BodiesOf(bmsg, "text/html")
                 => BodyParts(bmsg, "text/plain") = {}

----------------------------------------------------------------------------
(* Properties of fetch_sent_emails *)

RaisedFailures == {"select_raised", "search_raised", "fetch_raised"}

Count(seq, x) == Cardinality({k \in DOMAIN seq : seq[k] = x})

\* The failure met in this step, or None.
NewFailure ==
    IF Len(failures') > Len(failures) THEN failures'[Len(failures')] ELSE None

C9_Step ==
    /\ NewFailure \in RaisedFailures
          => /\ ret' = <<>>
             /\ fpc' = "returned"
             /\ stats' = [stats EXCEPT !.errors = @ + 1]
    /\ NewFailure = "search_not_ok"
          => /\ ret' = <<>>
             /\ fpc' = "returned"
             /\ stats' = stats
    /\ NewFailure = "fetch_not_ok"
          => /\ stats' = stats
             /\ sent_emails' = sent_emails
             /\ fpc' = "fetch"
             /\ fi' = fi + 1

C9_Inv ==
    /\ fpc # "propagated"
    /\ (/\ fpc = "returned"
        /\ \A k \in DOMAIN failures : failures[k] = "fetch_not_ok")
          => /\ ret = sent_emails
             /\ Len(ret) = nIds - Count(failures, "fetch_not_ok")

----------------------------------------------------------------------------
(* Properties of cleanup_old_backups *)

\* The files of the backup folder at the call (directories are no files).
BackupFiles == {f \in DOMAIN entries : entries[f].is_file}

\* The age of a file in whole days at instant t: the d with
\* d days <= t - mtime < d + 1 days.
AgeInWholeDays(t, f) ==
    CHOOSE d \in (0 - MaxTime)..MaxTime :
        /\ d * DayLen <= t - entries[f].mtime
        /\ t - entries[f].mtime < (d + 1) * DayLen

\* The age the loop found for each file is its age in whole days at an
\* instant of the call.
AgesMeasured ==
    /\ \A f \in BackupFiles : \E p \in agesSeen : p[1] = f
    /\ \A p \in agesSeen :
          /\ p[1] \in BackupFiles
          /\ \E t \in now0..now : p[2] = AgeInWholeDays(t, p[1])

\* C11: once cleanup_old_backups has returned without error, every file of
\* the backup folder whose age in whole days since its last modification
\* was strictly greater than keep_days is deleted, and every file whose age
\* was at most keep_days is still there. The age is the one found when the
\* loop reached the file; a file already too old at the call is deleted and
\* a file still young enough at the return is kept.
C11_Cleanup ==
    kpc = "returned" =>
        /\ AgesMeasured
        /\ \A p \in agesSeen :
              /\ p[2] > backup_keep_days => p[1] \notin present
              /\ p[2] <= backup_keep_days => p[1] \in present
        /\ \A f \in BackupFiles :
              /\ AgeInWholeDays(now0, f) > backup_keep_days
                    => f \notin present
              /\ AgeInWholeDays(now, f) <= backup_keep_days
                    => f \in present

\* The call returned having deleted a file one day over keep_days and kept
\* a file of exactly keep_days.
C11_Witness ==
    /\ kpc = "returned"
    /\ \E f \in BackupFiles \ present :
          AgeInWholeDays(now0, f) = backup_keep_days + 1
    /\ \E f \in BackupFiles \cap present :
          AgeInWholeDays(now, f) = backup_keep_days

----------------------------------------------------------------------------
(* All components of a run *)

\* A run of any one of the components, each from its own start.
InitAll == Init \/ InitFetch \/ InitBody \/ InitBackup

NextAll == Next \/ NextFetch \/ NextBody \/ NextBackup

SpecAll == InitAll /\ [][NextAll]_vars

Counters == {"processed_emails", "updated_rows", "errors"}

C12_StartAtZero == \A c \in Counters : stats[c] = 0

C12_NoDecrease == \A c \in Counters : stats'[c] >= stats[c]

\* C12: the three counters of the stats (processed_emails, updated_rows,
\* errors) start at 0, and no step of any component decreases or resets
\* one: after every step each counter is equal or larger.
C12_Monotone == C12_StartAtZero /\ [][C12_NoDecrease]_vars

\* A run in which each of the three counters has grown.
C12_Witness == \A c \in Counters : stats[c] > 0

----------------------------------------------------------------------------
(* Order of the steps of process_emails *)

\* Entry k of the trace is op for message id.
At(k, op, id) == trace[k].op = op /\ trace[k].id = id

\* The messages that were flagged processed when the loop took them.
FlaggedProcessed ==
    {trace[k].id : k \in {j \in DOMAIN trace :
                             trace[j].op = "flagged_processed"}}

\* Every mark_as_read comes after the analysis of the same message
\* returned without an "error" key and after update_data returned for it.
C13_MarkAfterUpdate ==
    \A k \in DOMAIN trace :
        trace[k].op = "mark_as_read" =>
            \E i, j \in 1..(k - 1) :
                /\ i < j
                /\ At(i, "analysis_ok", trace[k].id)
                /\ At(j, "update_returned", trace[k].id)

\* Every increment of processed_emails comes after mark_as_read returned
\* for the same message.
C13_CountAfterMark ==
    \A k \in DOMAIN trace :
        trace[k].op = "counted" =>
            \E j \in 1..(k - 1) : At(j, "mark_as_read", trace[k].id)

\* The read flags on the server and the counter are what the trace tells:
\* nothing is marked or counted besides.
C13_TraceComplete ==
    /\ readFlags = {trace[k].id : k \in {j \in DOMAIN trace :
                                            trace[j].op = "mark_as_read"}}
    /\ stats.processed_emails =
          Cardinality({k \in DOMAIN trace : trace[k].op = "counted"})

\* A message flagged processed has no other entry in the trace.
C13_ProcessedUntouched ==
    \A k \in DOMAIN trace :
        trace[k].id \in FlaggedProcessed => trace[k].op = "flagged_processed"

\* C13: in every run of process_emails a message is marked read on the
\* server only after its analysis returned without an "error" key and
\* update_data returned for it without raising; processed_emails is
\* incremented for it only after mark_as_read returned; and a message
\* flagged processed is never analysed, updated or marked.
C13_Order ==
    /\ C13_MarkAfterUpdate
    /\ C13_CountAfterMark
    /\ C13_TraceComplete
    /\ C13_ProcessedUntouched
    /\ readFlags \cap FlaggedProcessed = {}

\* A run that skipped a message flagged processed and marked and counted
\* another one.
C13_Witness ==
    /\ FlaggedProcessed # {}
    /\ readFlags # {}
    /\ stats.processed_emails > 0

====
